---- MODULE Spec2Model ----
(***************************************************************************)
(* Model of the scrape endpoint of lightweight-scraper-next                *)
(* (src/src/pages/api/scrape.ts): URL validation, the DNS host-safety      *)
(* check, the renderer operation raced against the global deadline by      *)
(* withTimeout, the retry loop, and the cleanup closure shared by the      *)
(* success path, the timeout callback and the catch handler.               *)
(*                                                                         *)
(* JavaScript runs every callback to completion and drains the microtask   *)
(* queue before the next timer or I/O callback, so one action is one       *)
(* macrotask: everything from the settling of an awaited external          *)
(* operation (DNS, renderer call, timer) to the next await on an external  *)
(* operation.                                                              *)
(*                                                                         *)
(* Text (IP addresses) is a sequence of one-character strings, so that     *)
(* startsWith, split and Number are computed as the code computes them.    *)
(***************************************************************************)
EXTENDS Integers, Sequences, FiniteSets, TLC

----------------------------------------------------------------------------
(* Bounds of the model *)

\* longest address list a DNS lookup returns in the model
MaxAddrs == 2

\* number of navigation outcomes the target site fixes in advance
NavPlanLen == 3

----------------------------------------------------------------------------
(* Text helpers *)

StartsWith(s, p) ==
    /\ Len(s) >= Len(p)
    /\ SubSeq(s, 1, Len(p)) = p

Contains(s, c) ==
    \E i \in 1..Len(s) : s[i] = c

\* String.prototype.toLowerCase on the characters an address can hold
LowerChar(c) ==
    CASE c = "A" -> "a" [] c = "B" -> "b" [] c = "C" -> "c"
      [] c = "D" -> "d" [] c = "E" -> "e" [] c = "F" -> "f"
      [] OTHER -> c

toLowerCase(s) ==
    [i \in 1..Len(s) |-> LowerChar(s[i])]

\* index of the first occurrence of c in s, or Len(s) + 1
RECURSIVE IndexFrom(_, _, _)
IndexFrom(s, c, i) ==
    IF i > Len(s) THEN Len(s) + 1
    ELSE IF s[i] = c THEN i
    ELSE IndexFrom(s, c, i + 1)

\* String.prototype.split on a one-character separator
RECURSIVE Split(_, _)
Split(s, sep) ==
    LET k == IndexFrom(s, sep, 1)
    IN  IF k > Len(s) THEN << s >>
        ELSE << SubSeq(s, 1, k - 1) >> \o Split(SubSeq(s, k + 1, Len(s)), sep)

DigitVal(c) ==
    CASE c = "0" -> 0 [] c = "1" -> 1 [] c = "2" -> 2 [] c = "3" -> 3
      [] c = "4" -> 4 [] c = "5" -> 5 [] c = "6" -> 6 [] c = "7" -> 7
      [] c = "8" -> 8 [] c = "9" -> 9 [] c = "a" -> 10 [] c = "b" -> 11
      [] c = "c" -> 12 [] c = "d" -> 13 [] c = "e" -> 14 [] c = "f" -> 15
      [] OTHER -> 0

\* the value of a numeral in the given base (Number(p) for base 10)
RECURSIVE NumeralIn(_, _)
NumeralIn(s, base) ==
    IF Len(s) = 0 THEN 0
    ELSE NumeralIn(SubSeq(s, 1, Len(s) - 1), base) * base + DigitVal(s[Len(s)])

Number(p) == NumeralIn(p, 10)

----------------------------------------------------------------------------
(* Addresses a resolver can return, in the text form dns.lookup gives *)

Ip4Public     == << "9","3",".","1","8","4",".","2","1","6",".","3","4" >>
Ip4Ten        == << "1","0",".","0",".","0",".","5" >>
Ip4Loopback   == << "1","2","7",".","0",".","0",".","1" >>
Ip4Metadata   == << "1","6","9",".","2","5","4",".","1","6","9",".","2","5","4" >>
Ip4Lan        == << "1","9","2",".","1","6","8",".","1",".","1" >>
Ip4Block172   == << "1","7","2",".","3","1",".","2","5","5",".","1" >>
Ip4Zero       == << "0",".","0",".","0",".","0" >>
Ip6Loopback   == << ":",":","1" >>
Ip6LinkLocal  == << "f","e","8","0",":",":","1" >>
Ip6LinkLocalB == << "f","e","b","f",":",":","1" >>
Ip6UniqueFc   == << "f","c","0","0",":",":","1" >>
Ip6UniqueFd   == << "f","d","1","2",":",":","1" >>
Ip6Public     == << "2","6","0","6",":","4","7","0","0",":",":","1","1","1","1" >>

Addresses ==
    { Ip4Public, Ip4Ten, Ip4Loopback, Ip4Metadata, Ip4Lan, Ip4Block172, Ip4Zero,
      Ip6Loopback, Ip6LinkLocal, Ip6LinkLocalB, Ip6UniqueFc, Ip6UniqueFd, Ip6Public }

\* net.isIP on the text of an address: 4, 6, or 0 for text that is no address
isIP(ip) ==
    IF Contains(ip, ":") THEN 6
    ELSE IF Len(Split(ip, ".")) = 4 THEN 4
    ELSE 0

----------------------------------------------------------------------------
(* isPrivateIpv4 / isPrivateIp *)

isPrivateIpv4(octets) ==
    LET a == octets[1]
        b == octets[2]
    IN  \/ a = 10
        \/ a = 127
        \/ a = 169 /\ b = 254
        \/ a = 192 /\ b = 168
        \/ a = 172 /\ b >= 16 /\ b <= 31
        \/ a = 0

isPrivateIp(ip) ==
    IF isIP(ip) = 4
    THEN LET parts == Split(ip, ".")
         IN  isPrivateIpv4([i \in 1..Len(parts) |-> Number(parts[i])])
    ELSE IF isIP(ip) = 6
    THEN LET lower == toLowerCase(ip)
         IN  \/ lower = << ":",":","1" >>
             \/ StartsWith(lower, << "f","e","8","0" >>)
             \/ StartsWith(lower, << "f","e","8","0",":" >>)
             \/ StartsWith(lower, << "f","c" >>)
             \/ StartsWith(lower, << "f","d" >>)
    ELSE FALSE

----------------------------------------------------------------------------
(* The request: query parameter url, as the route layer hands it over *)

\* req.query.url when the parameter is absent
NoUrl == "<undefined>"

Urls ==
    { NoUrl, "", "not-a-url", "ftp://example.com", "http://localhost/",
      "https://example.com", "HTTP://Example.COM/path", "http://169.254.169.254/" }

Methods == { "GET", "POST" }

\* new URL(urlString): ok is FALSE where the constructor throws; protocol and
\* hostname are the normalised (lower-case) components
ParseURL(urlString) ==
    CASE urlString = "ftp://example.com" ->
            [ok |-> TRUE, protocol |-> "ftp:", hostname |-> "example.com"]
      [] urlString = "http://localhost/" ->
            [ok |-> TRUE, protocol |-> "http:", hostname |-> "localhost"]
      [] urlString = "https://example.com" ->
            [ok |-> TRUE, protocol |-> "https:", hostname |-> "example.com"]
      [] urlString = "HTTP://Example.COM/path" ->
            [ok |-> TRUE, protocol |-> "http:", hostname |-> "example.com"]
      [] urlString = "http://169.254.169.254/" ->
            [ok |-> TRUE, protocol |-> "http:", hostname |-> "169.254.169.254"]
      [] OTHER ->
            [ok |-> FALSE, protocol |-> "", hostname |-> ""]

\* isValidHttpUrl without the protocol test: any URL that parses passes
isValidHttpUrl_AnyScheme(urlString) ==
    ParseURL(urlString).ok

isValidHttpUrl(urlString) ==
    LET url == ParseURL(urlString)
    IN  IF url.ok
        THEN url.protocol = "http:" \/ url.protocol = "https:"
        ELSE FALSE

\* the handler's test of the query parameter, negated: the request goes on
UrlAccepted(u) ==
    ~ (u = NoUrl \/ u = "" \/ ~ isValidHttpUrl(u))

----------------------------------------------------------------------------
(* isHostAllowed *)

\* what dns.lookup(hostname, {all: true}) can resolve to: a hostname that is
\* an address literal resolves to itself, any other name to whatever the
\* resolver holds for it
LookupResults(hostname) ==
    IF hostname = "169.254.169.254"
    THEN { << Ip4Metadata >> }
    ELSE UNION { [1..n -> Addresses] : n \in 0..MaxAddrs }

\* the verdict after the lookup returned addrs
AddrsAllowed(addrs) ==
    IF Len(addrs) = 0 THEN FALSE
    ELSE \A i \in 1..Len(addrs) :
            /\ Len(addrs[i]) # 0
            /\ ~ isPrivateIp(addrs[i])

\* a catch block that lets the request through when the lookup throws
LookupErrorVerdict_FailOpen == TRUE

\* the verdict when the lookup threw: the catch block's return value
LookupErrorVerdict == FALSE

\* isHostAllowed without the test for the literal "localhost"
HostPrecheck_NoLocalhost(urlString) ==
    LET u == ParseURL(urlString)
    IN  IF ~ u.ok THEN "reject"
        ELSE IF u.hostname = "" THEN "reject"
        ELSE "lookup"

\* the checks made before any lookup: "decided" verdicts need no resolution
HostPrecheck(urlString) ==
    LET u == ParseURL(urlString)
    IN  IF ~ u.ok THEN "reject"
        ELSE IF u.hostname = "" THEN "reject"
        ELSE IF u.hostname = "localhost" THEN "reject"
        ELSE "lookup"

\* a handler that does not return on a falsy verdict
ProceedsToRenderer_Always(hostAllowedValue) == TRUE

\* the handler goes on to the renderer only with a truthy verdict
ProceedsToRenderer(hostAllowedValue) == hostAllowedValue

----------------------------------------------------------------------------
(* Error messages, as sequences of phrases: includes() is membership of a  *)
(* phrase, === is equality of the whole message                            *)

MsgExe      == << "browserType.launch:", "Executable doesn't exist", "at /ms-playwright" >>
MsgDownload == << "Please run the following command to", "download new browsers" >>
MsgNavTime  == << "page.goto:", "Timeout", "18000ms exceeded." >>
MsgBare     == << "Timeout" >>
MsgOther    == << "net::ERR_CONNECTION_REFUSED" >>

\* the messages an error thrown by a renderer call can carry
RendererMsgs == { MsgExe, MsgDownload, MsgNavTime, MsgBare, MsgOther }

includes(message, phrase) ==
    \E i \in 1..Len(message) : message[i] = phrase

NoErr == [src |-> "none", attempt |-> 0, msg |-> << >>]

Err(src, attempt, msg) == [src |-> src, attempt |-> attempt, msg |-> msg]

\* the rejection withTimeout makes itself: new Error("Timeout")
TimeoutErr == Err("timer", 0, << "Timeout" >>)

----------------------------------------------------------------------------
(* Pages and extraction *)

\* what the target serves: title and h1 text ("absent": no such element),
\* the content attribute of meta[name=description] ("absent": no element,
\* "": attribute missing or empty)
Sites ==
    { [html |-> "<title>A</title><meta B><h1>C</h1>", title |-> "A", meta |-> "B", h1 |-> "C"],
      [html |-> "<p>bare</p>", title |-> "absent", meta |-> "", h1 |-> "absent"] }

\* the document of a page that has not navigated
BlankDoc == [html |-> "", title |-> "absent", meta |-> "absent", h1 |-> "absent"]

NoBody == [kind |-> "none"]

\* page.content(), wrapped as DebugSuccess
DebugSuccess(d) == [kind |-> "html", html |-> d.html, status |-> 200]

\* page.evaluate(...), wrapped as SuccessResponse
SuccessResponse(d) ==
    [kind |-> "summary",
     title |-> IF d.title = "absent" THEN "null" ELSE d.title,
     metaDescription |-> IF d.meta = "absent" \/ d.meta = "" THEN "null" ELSE d.meta,
     h1 |-> IF d.h1 = "absent" THEN "null" ELSE d.h1,
     status |-> 200]

ExtractResult(d, dbg) ==
    IF dbg THEN DebugSuccess(d) ELSE SuccessResponse(d)

----------------------------------------------------------------------------
(* Responses *)

NoResp == [status |-> 0, error |-> "", details |-> << >>, body |-> NoBody]

ErrorResp(status, error) ==
    [status |-> status, error |-> error, details |-> << >>, body |-> NoBody]

OkResp(result) ==
    [status |-> 200, error |-> "", details |-> << >>, body |-> result]

NotInstalledResp ==
    ErrorResp(500, "Playwright browsers not installed. Run 'npx playwright install'")

\* a catch block that adds the details whether or not debug is set
CatchResponse_AlwaysDetails(message, dbg) ==
    IF includes(message, "Executable doesn't exist") \/ includes(message, "download new browsers")
    THEN NotInstalledResp
    ELSE IF message = << "Timeout" >>
    THEN ErrorResp(504, "Timeout")
    ELSE [status |-> 500, error |-> "Failed to scrape page", details |-> message, body |-> NoBody]

\* a catch block that looks for the first phrase only
CatchResponse_OnePhrase(message, dbg) ==
    IF includes(message, "Executable doesn't exist")
    THEN NotInstalledResp
    ELSE IF message = << "Timeout" >>
    THEN ErrorResp(504, "Timeout")
    ELSE IF dbg
    THEN [status |-> 500, error |-> "Failed to scrape page", details |-> message, body |-> NoBody]
    ELSE ErrorResp(500, "Failed to scrape page")

\* the catch block's choice of response from the error's message
CatchResponse(message, dbg) ==
    IF includes(message, "Executable doesn't exist") \/ includes(message, "download new browsers")
    THEN NotInstalledResp
    ELSE IF message = << "Timeout" >>
    THEN ErrorResp(504, "Timeout")
    ELSE IF dbg
    THEN [status |-> 500, error |-> "Failed to scrape page", details |-> message, body |-> NoBody]
    ELSE ErrorResp(500, "Failed to scrape page")

----------------------------------------------------------------------------
(* cleanup, withTimeout and the retry loop: the decisions they take *)

NoBrowser == "null"

\* a cleanup that does not consult the closed flag
ShouldClose_NoFlag(closedFlag, b) ==
    b # NoBrowser

\* cleanup's guard: browser.close() is called iff this holds
ShouldClose(closedFlag, b) ==
    ~ closedFlag /\ b # NoBrowser

\* a timer callback that calls onTimeout and rejects without waiting for it
RejectsNow_NoWait(cleanupPending) == TRUE

\* the timer callback rejects at once only when onTimeout's promise is
\* settled; a pending one is waited for (p.then(() => reject(...)))
RejectsNow(cleanupPending) ==
    ~ cleanupPending

maxAttempts == 2

\* a loop that rethrows the first failure: no retry
AfterGotoFail_NoRetry(att) == "throw"

\* a loop whose last-attempt test is off by one: a third attempt is made
AfterGotoFail_OneMore(att) ==
    IF att = maxAttempts + 1 THEN "throw" ELSE "backoff"

\* the catch block of the retry loop: rethrow on the last attempt, else retry
AfterGotoFail(att) ==
    IF att = maxAttempts THEN "throw" ELSE "backoff"

----------------------------------------------------------------------------
(* State *)

VARIABLES
    method,      \* req.method
    url,         \* req.query.url
    debug,       \* the debug flag of the query
    navPlan,     \* what the target does to the successive page.goto calls
    site,        \* the page the target serves
    hpc,         \* handler: "start", "dns", "guard", "closing", "done"
    hostChecked, \* isHostAllowed has returned
    hostAllowed, \* its verdict
    dnsState,    \* "none", "pending", "returned", "threw"
    addrs,       \* the addresses the lookup returned
    dnsLookups,  \* dns.lookup calls made
    browser,     \* the handler's browser variable
    pageClosed,  \* the handler's closed flag
    opc,         \* the operation passed to withTimeout: the await it is at
    attempt,     \* the retry loop's counter
    gotoCalls,   \* page.goto calls made
    navLog,      \* the retry loop's events, in order: "goto", "ok", "fail", "delay"
    doc,         \* the document loaded in the page
    opValue,     \* the value the operation is about to return
    opErr,       \* the error the operation threw
    tpc,         \* the timer: "off", "armed", "closing", "rejected", "cancelled"
    bstate,      \* the engine: "none", "launching", "open", "closed", "failed"
    launches,    \* chromium.launch calls made
    closeCalls,  \* browser.close calls made
    err,         \* the error the handler caught
    resp,        \* the response sent
    timed,       \* whether this run keeps time
    clock,       \* ms since withTimeout armed its timer (kept while it is armed)
    navStart,    \* the clock at the last page.goto call
    backoffStart \* the clock at the start of the retry delay

vars ==
    << method, url, debug, navPlan, site, hpc, hostChecked, hostAllowed, dnsState,
       addrs, dnsLookups, browser, pageClosed, opc, attempt, gotoCalls, navLog, doc,
       opValue, opErr, tpc, bstate, launches, closeCalls, err, resp,
       timed, clock, navStart, backoffStart >>

inputVars == << method, url, debug, navPlan, site, timed >>

timeVars == << clock, navStart, backoffStart >>

dnsVars == << hostChecked, hostAllowed, dnsState, addrs, dnsLookups >>

opVars == << opc, attempt, gotoCalls, navLog, doc, opValue, opErr >>

\* the state of a call at handler entry
Constructed ==
    /\ method \in Methods
    /\ url \in Urls
    /\ debug \in BOOLEAN
    /\ navPlan \in [1..NavPlanLen -> {"ok", "fail"}]
    /\ site \in Sites
    /\ hpc = "start"
    /\ hostChecked = FALSE
    /\ hostAllowed = FALSE
    /\ dnsState = "none"
    /\ addrs = << >>
    /\ dnsLookups = 0
    /\ browser = NoBrowser
    /\ pageClosed = FALSE
    /\ opc = "idle"
    /\ attempt = 0
    /\ gotoCalls = 0
    /\ navLog = << >>
    /\ doc = BlankDoc
    /\ opValue = NoBody
    /\ opErr = NoErr
    /\ tpc = "off"
    /\ bstate = "none"
    /\ launches = 0
    /\ closeCalls = 0
    /\ err = NoErr
    /\ resp = NoResp
    /\ clock = 0
    /\ navStart = 0
    /\ backoffStart = 0

\* a call in which the order of events is not tied to the clock
Init ==
    /\ Constructed
    /\ timed = FALSE

\* a call in which the timers run by the clock: a valid URL of a public host
TimedInit ==
    /\ Constructed
    /\ timed = TRUE
    /\ method = "GET"
    /\ url = "https://example.com"
    /\ site \in { s \in Sites : s.title = "A" }

----------------------------------------------------------------------------
(* Time *)

\* the budget handed to withTimeout, in ms
TIMEOUT == 20000

\* what setDefaultNavigationTimeout takes off the budget
NavMargin == 2000

\* page.setDefaultNavigationTimeout(TIMEOUT - 2000)
NavTimeoutMs == TIMEOUT - NavMargin

\* the delay before the retry
RetryDelay == 250

\* time is kept while withTimeout's timer is armed
Timing == timed /\ tpc = "armed"

\* the pending page.goto has run for the navigation timeout
NavTimedOut == Timing /\ clock >= navStart + NavTimeoutMs

----------------------------------------------------------------------------
(* The handler up to the host check *)

\* the handler from the return of isHostAllowed to its await of withTimeout:
\* the 400 on a falsy verdict; else the operation runs up to its first await
\* (chromium.launch is called) and withTimeout arms the timer
AfterHostCheck(verdict) ==
    /\ hostChecked' = TRUE
    /\ hostAllowed' = verdict
    /\ UNCHANGED << inputVars, timeVars, dnsLookups, attempt, gotoCalls, navLog, doc, opValue, opErr,
                    closeCalls, err >>
    /\ IF ProceedsToRenderer(verdict)
       THEN /\ browser' = NoBrowser
            /\ pageClosed' = FALSE
            /\ opc' = "launch"
            /\ bstate' = "launching"
            /\ launches' = launches + 1
            /\ tpc' = "armed"
            /\ hpc' = "guard"
            /\ resp' = resp
       ELSE /\ hpc' = "done"
            /\ resp' = ErrorResp(400, "Invalid URL or disallowed host")
            /\ UNCHANGED << browser, pageClosed, opc, bstate, launches, tpc >>

\* handler entry: method check, URL validation, and isHostAllowed up to its
\* first await (the lookup); a verdict reached without a lookup goes on to
\* AfterHostCheck in the same step
HandlerStart ==
    /\ hpc = "start"
    /\ IF method # "GET"
       THEN /\ hpc' = "done"
            /\ resp' = ErrorResp(405, "Method Not Allowed")
            /\ UNCHANGED << inputVars, timeVars, dnsVars, browser, pageClosed, opVars, tpc, bstate,
                            launches, closeCalls, err >>
       ELSE IF ~ UrlAccepted(url)
       THEN /\ hpc' = "done"
            /\ resp' = ErrorResp(400, "Invalid URL")
            /\ UNCHANGED << inputVars, timeVars, dnsVars, browser, pageClosed, opVars, tpc, bstate,
                            launches, closeCalls, err >>
       ELSE IF HostPrecheck(url) = "reject"
       THEN /\ AfterHostCheck(FALSE)
            /\ UNCHANGED << dnsState, addrs >>
       ELSE /\ dnsState' = "pending"
            /\ dnsLookups' = dnsLookups + 1
            /\ hpc' = "dns"
            /\ UNCHANGED << inputVars, timeVars, hostChecked, hostAllowed, addrs, browser, pageClosed,
                            opVars, tpc, bstate, launches, closeCalls, err, resp >>

LookupReturns ==
    /\ hpc = "dns"
    /\ \E as \in LookupResults(ParseURL(url).hostname) :
          /\ addrs' = as
          /\ dnsState' = "returned"
          /\ AfterHostCheck(AddrsAllowed(as))

LookupThrows ==
    /\ hpc = "dns"
    /\ addrs' = addrs
    /\ dnsState' = "threw"
    /\ AfterHostCheck(LookupErrorVerdict)

----------------------------------------------------------------------------
(* The handler after withTimeout settles *)

\* a withTimeout that never clears its timer
CancelTimer_Forgets ==
    tpc

\* clearTimeout in withTimeout's finally block
CancelTimer ==
    IF tpc = "armed" THEN "cancelled" ELSE tpc

\* the catch block, entered with error e when the closed flag reads closedNow
\* and callsNow closes have been made: cleanup is called; either it awaits
\* browser.close(), or it returns at once and the response is sent
HandlerCatches(e, closedNow, callsNow) ==
    /\ err' = e
    /\ IF ShouldClose(closedNow, browser)
       THEN /\ closeCalls' = callsNow + 1
            /\ hpc' = "closing"
            /\ resp' = resp
       ELSE /\ closeCalls' = callsNow
            /\ hpc' = "done"
            /\ resp' = CatchResponse(e.msg, debug)

\* the close awaited by the catch block's cleanup completes; the response
CatchCloseDone ==
    /\ hpc = "closing"
    /\ bstate' = "closed"
    /\ pageClosed' = TRUE
    /\ hpc' = "done"
    /\ resp' = CatchResponse(err.msg, debug)
    /\ UNCHANGED << inputVars, timeVars, dnsVars, browser, opVars, tpc, launches, closeCalls, err >>

----------------------------------------------------------------------------
(* The operation passed to withTimeout.  It runs on after the handler has  *)
(* responded: withTimeout does not cancel it.                              *)

\* the operation returns v: Promise.race settles with it if still pending,
\* and the handler sends the 200
OpReturns(v, callsNow) ==
    /\ opc' = "resolved"
    /\ opValue' = v
    /\ closeCalls' = callsNow
    /\ IF hpc = "guard"
       THEN /\ hpc' = "done"
            /\ resp' = OkResp(v)
            /\ tpc' = CancelTimer
            /\ err' = err
       ELSE UNCHANGED << hpc, resp, tpc, err >>

\* the operation throws e: Promise.race settles with it if still pending,
\* and the handler's catch block runs
OpThrows(e) ==
    /\ opc' = "rejected"
    /\ opErr' = e
    /\ IF hpc = "guard"
       THEN /\ HandlerCatches(e, pageClosed, closeCalls)
            /\ tpc' = CancelTimer
       ELSE UNCHANGED << hpc, resp, tpc, err, closeCalls >>

LaunchOk ==
    /\ opc = "launch"
    /\ browser' = "chromium"
    /\ bstate' = "open"
    /\ opc' = "newContext"
    /\ UNCHANGED << inputVars, timeVars, dnsVars, hpc, pageClosed, attempt, gotoCalls, navLog, doc,
                    opValue, opErr, tpc, launches, closeCalls, err, resp >>

LaunchFails ==
    /\ opc = "launch"
    /\ bstate' = "failed"
    /\ \E m \in RendererMsgs : OpThrows(Err("launch", 0, m))
    /\ UNCHANGED << inputVars, timeVars, dnsVars, browser, pageClosed, attempt, gotoCalls, navLog, doc,
                    opValue, launches >>

NewContextOk ==
    /\ opc = "newContext"
    /\ bstate = "open"
    /\ opc' = "newPage"
    /\ UNCHANGED << inputVars, timeVars, dnsVars, hpc, browser, pageClosed, attempt, gotoCalls, navLog, doc,
                    opValue, opErr, tpc, bstate, launches, closeCalls, err, resp >>

\* newPage returns; the timeouts are set; the loop's first page.goto is called
NewPageOk ==
    /\ opc = "newPage"
    /\ bstate = "open"
    /\ attempt' = 1
    /\ gotoCalls' = gotoCalls + 1
    /\ navLog' = Append(navLog, "goto")
    /\ opc' = "goto"
    /\ navStart' = clock
    /\ UNCHANGED << inputVars, clock, backoffStart, dnsVars, hpc, browser, pageClosed, doc,
                    opValue, opErr, tpc, bstate, launches, closeCalls, err, resp >>

\* browser.newContext or context.newPage throws
SessionFails ==
    /\ opc \in {"newContext", "newPage"}
    /\ \E m \in RendererMsgs : OpThrows(Err(opc, 0, m))
    /\ UNCHANGED << inputVars, timeVars, dnsVars, browser, pageClosed, attempt, gotoCalls, navLog, doc,
                    opValue, bstate, launches >>

\* page.goto returns: the loop breaks, and page.content or page.evaluate is called
GotoOk ==
    /\ opc = "goto"
    /\ bstate = "open"
    /\ navPlan[attempt] = "ok"
    /\ doc' = site
    /\ navLog' = Append(navLog, "ok")
    /\ opc' = IF debug THEN "content" ELSE "evaluate"
    /\ UNCHANGED << inputVars, timeVars, dnsVars, hpc, browser, pageClosed, attempt, gotoCalls,
                    opValue, opErr, tpc, bstate, launches, closeCalls, err, resp >>

\* page.goto throws: because the target fails the navigation, because a
\* close of the engine has been asked for meanwhile, or because the
\* navigation timeout has run
GotoFails ==
    /\ opc = "goto"
    /\ navPlan[attempt] = "fail" \/ closeCalls > 0 \/ NavTimedOut
    /\ navLog' = Append(navLog, "fail")
    /\ UNCHANGED << inputVars, clock, navStart, dnsVars, browser, pageClosed, attempt, gotoCalls, doc,
                    opValue, bstate, launches >>
    /\ IF AfterGotoFail(attempt) = "throw"
       THEN /\ \E m \in RendererMsgs : OpThrows(Err("goto", attempt, m))
            /\ backoffStart' = backoffStart
       ELSE /\ opc' = "backoff"
            /\ backoffStart' = clock
            /\ UNCHANGED << opErr, hpc, resp, tpc, err, closeCalls >>

\* the 250 ms delay elapses: the next attempt's page.goto is called
BackoffDone ==
    /\ opc = "backoff"
    /\ Timing => clock >= backoffStart + RetryDelay
    /\ attempt' = attempt + 1
    /\ gotoCalls' = gotoCalls + 1
    /\ navLog' = navLog \o << "delay", "goto" >>
    /\ opc' = "goto"
    /\ navStart' = clock
    /\ UNCHANGED << inputVars, clock, backoffStart, dnsVars, hpc, browser, pageClosed, doc,
                    opValue, opErr, tpc, bstate, launches, closeCalls, err, resp >>

\* page.content or page.evaluate returns; cleanup is called: either it awaits
\* browser.close(), or it returns at once and the operation returns its value
ExtractOk ==
    /\ opc \in {"content", "evaluate"}
    /\ bstate = "open"
    /\ UNCHANGED << inputVars, timeVars, dnsVars, browser, pageClosed, attempt, gotoCalls, navLog, doc,
                    opErr, bstate, launches >>
    /\ LET v == ExtractResult(doc, opc = "content")
       IN  IF ShouldClose(pageClosed, browser)
           THEN /\ closeCalls' = closeCalls + 1
                /\ opc' = "closing"
                /\ opValue' = v
                /\ UNCHANGED << hpc, resp, tpc, err >>
           ELSE OpReturns(v, closeCalls)

ExtractFails ==
    /\ opc \in {"content", "evaluate"}
    /\ \E m \in RendererMsgs : OpThrows(Err(opc, 0, m))
    /\ UNCHANGED << inputVars, timeVars, dnsVars, browser, pageClosed, attempt, gotoCalls, navLog, doc,
                    opValue, bstate, launches >>

\* the close awaited by the operation's cleanup completes; the flag is set
\* and the operation returns its value
OpCloseDone ==
    /\ opc = "closing"
    /\ bstate' = "closed"
    /\ pageClosed' = TRUE
    /\ OpReturns(opValue, closeCalls)
    /\ UNCHANGED << inputVars, timeVars, dnsVars, browser, attempt, gotoCalls, navLog, doc, opErr, launches >>

----------------------------------------------------------------------------
(* withTimeout's timer *)

\* the timer fires: onTimeout calls cleanup; the rejection with "Timeout"
\* follows at once or waits for cleanup's promise
TimerFires ==
    /\ tpc = "armed"
    /\ timed => clock >= TIMEOUT
    /\ LET pending == ShouldClose(pageClosed, browser)
           calls == IF pending THEN closeCalls + 1 ELSE closeCalls
       IN  /\ tpc' = IF pending THEN "closing" ELSE "rejected"
           /\ IF RejectsNow(pending)
              THEN HandlerCatches(TimeoutErr, pageClosed, calls)
              ELSE /\ closeCalls' = calls
                   /\ UNCHANGED << hpc, err, resp >>
    /\ UNCHANGED << inputVars, timeVars, dnsVars, browser, pageClosed, opVars, bstate, launches >>

\* the close awaited by onTimeout's cleanup completes; the flag is set and
\* the timer's promise rejects with "Timeout"
TimerCloseDone ==
    /\ tpc = "closing"
    /\ bstate' = "closed"
    /\ pageClosed' = TRUE
    /\ tpc' = "rejected"
    /\ IF hpc = "guard"
       THEN HandlerCatches(TimeoutErr, TRUE, closeCalls)
       ELSE UNCHANGED << hpc, err, resp, closeCalls >>
    /\ UNCHANGED << inputVars, timeVars, dnsVars, browser, opVars, launches >>

----------------------------------------------------------------------------

Next ==
    \/ HandlerStart
    \/ LookupReturns
    \/ LookupThrows
    \/ LaunchOk
    \/ LaunchFails
    \/ NewContextOk
    \/ NewPageOk
    \/ SessionFails
    \/ GotoOk
    \/ GotoFails
    \/ BackoffDone
    \/ ExtractOk
    \/ ExtractFails
    \/ OpCloseDone
    \/ TimerFires
    \/ TimerCloseDone
    \/ CatchCloseDone

\* the clock advances, by the retry delay (every delay in the handler is a
\* multiple of it), never past a timer that is due
Tick ==
    /\ Timing
    /\ clock < TIMEOUT
    /\ opc = "goto" => clock < navStart + NavTimeoutMs
    /\ opc = "backoff" => clock < backoffStart + RetryDelay
    /\ clock' = clock + RetryDelay
    /\ UNCHANGED << inputVars, dnsVars, hpc, browser, pageClosed, opVars, tpc, bstate,
                    launches, closeCalls, err, resp, navStart, backoffStart >>

TimedNext ==
    \/ Next
    \/ Tick

Spec == Init /\ [][Next]_vars

TimedSpec == TimedInit /\ [][TimedNext]_vars

\* The timer fires once its time has run, an awaited browser.close() returns,
\* and the handler's own code runs; the lookup and the renderer's launch,
\* navigation and extraction may never complete.
Fairness ==
    /\ WF_vars(HandlerStart)
    /\ WF_vars(TimerFires)
    /\ WF_vars(TimerCloseDone)
    /\ WF_vars(OpCloseDone)
    /\ WF_vars(CatchCloseDone)

LiveSpec == Init /\ [][Next]_vars /\ Fairness

----------------------------------------------------------------------------
(* Notions the properties are stated in *)

Responded == hpc = "done"

\* the deadline timer of this call has fired
TimerFired == tpc \in {"closing", "rejected"}

DisallowedHostResp == ErrorResp(400, "Invalid URL or disallowed host")

InvalidUrlResp == ErrorResp(400, "Invalid URL")

\* the value of the first 16-bit group of an IPv6 address text
FirstGroup(ip) ==
    NumeralIn(SubSeq(ip, 1, IndexFrom(ip, ":", 1) - 1), 16)

\* the private, loopback and link-local ranges by number: 10/8, 127/8,
\* 169.254/16, 192.168/16, 172.16/12, 0/8; ::1, fc00::/7, fe80::/10
InPrivateRange(ip) ==
    IF isIP(ip) = 4
    THEN LET parts == Split(ip, ".")
             a == Number(parts[1])
             b == Number(parts[2])
         IN  \/ a \in {0, 10, 127}
             \/ a = 169 /\ b = 254
             \/ a = 192 /\ b = 168
             \/ a = 172 /\ b \in 16..31
    ELSE \/ ip = Ip6Loopback
         \/ FirstGroup(ip) \in 64512..65023
         \/ FirstGroup(ip) \in 65152..65215

\* the URLs of the model that parse and have scheme http or https
HttpUrls ==
    { "http://localhost/", "https://example.com", "HTTP://Example.COM/path",
      "http://169.254.169.254/" }

----------------------------------------------------------------------------
(* Properties *)

\* C1: once the handler has sent its response, no engine launched by the
\* call is open: whatever was launched has been closed, and nothing
\* launched by the call comes open afterwards.
C1_NoSessionOutlivesCall ==
    Responded => bstate # "open"

\* C2: a call whose deadline timer fired answers 504 Timeout, and when the
\* 504 is sent browser.close has been called exactly once in the call.
C2_TimeoutClosesExactlyOnce ==
    /\ Responded /\ TimerFired => resp = ErrorResp(504, "Timeout")
    /\ Responded /\ resp.status = 504 => closeCalls = 1

\* C3: the handler holds withTimeout's own "Timeout" rejection only after
\* the cleanup started by the timer callback has run to completion; it never
\* holds it while that cleanup still awaits browser.close().
C3_CleanupDoneBeforeTimeout ==
    err = TimeoutErr => tpc = "rejected"

\* C3 witness: the timer fired with an engine open, its cleanup closed the
\* engine, and then the handler caught the Timeout.
C3_Witness ==
    /\ err = TimeoutErr
    /\ tpc = "rejected"
    /\ closeCalls = 1
    /\ pageClosed
    /\ bstate = "closed"

\* C4: browser.close is called at most once in a call.
C4_CloseAtMostOnce ==
    closeCalls <= 1

\* C5: chromium.launch is called only after isHostAllowed has returned, its
\* lookup has returned, and its verdict is Allowed; with the check unfinished
\* or Rejected there is no engine.
C5_HostCheckBeforeLaunch ==
    /\ launches > 0 => hostChecked /\ hostAllowed /\ dnsState = "returned"
    /\ ~ (hostChecked /\ hostAllowed) => bstate = "none" /\ browser = NoBrowser

\* C5 witness: an engine launched after an Allowed verdict.
C5_Witness ==
    /\ launches = 1
    /\ bstate = "open"
    /\ hostAllowed

\* C6: isValidHttpUrl is true exactly of the URLs that parse with scheme
\* http or https; a GET whose url is missing, empty, unparseable or of
\* another scheme is answered 400 "Invalid URL", and no lookup and no launch
\* is ever made for it.
C6_InvalidUrlRejected ==
    /\ \A u \in Urls \ {NoUrl} : isValidHttpUrl(u) <=> u \in HttpUrls
    /\ url \notin HttpUrls => dnsLookups = 0 /\ launches = 0 /\ ~ hostChecked
    /\ url \notin HttpUrls /\ method = "GET" /\ Responded => resp = InvalidUrlResp

\* C6 witness: an ftp URL answered 400 "Invalid URL".
C6_Witness ==
    /\ url = "ftp://example.com"
    /\ method = "GET"
    /\ resp = InvalidUrlResp

\* C7: when the lookup returned a list holding an address in a private,
\* loopback or link-local range at any position, the verdict is Rejected,
\* the response is the 400 of a disallowed host, and nothing is launched.
C7_PrivateAddressRejected ==
    dnsState = "returned" /\ (\E i \in 1..Len(addrs) : InPrivateRange(addrs[i]))
        => /\ ~ hostAllowed
           /\ launches = 0
           /\ resp = DisallowedHostResp

\* C8: when the lookup threw or returned no address, the verdict is
\* Rejected, the response is the 400 of a disallowed host, and nothing is
\* launched.
C8_FailClosed ==
    dnsState = "threw" \/ (dnsState = "returned" /\ Len(addrs) = 0)
        => /\ hostChecked
           /\ ~ hostAllowed
           /\ launches = 0
           /\ Responded
           /\ resp = DisallowedHostResp

\* C8 witness: a lookup that threw, answered with the 400.
C8_Witness ==
    /\ dnsState = "threw"
    /\ resp = DisallowedHostResp

\* C9: a call whose navigation fails on the first attempt and succeeds on
\* the retry ends as a call whose navigation succeeds at once: unless the
\* deadline fires or the extraction itself throws, the response is the 200
\* with the result extracted from the target's page, the same whichever
\* attempt succeeded; the first attempt's failure is never what the handler
\* catches.
C9_RetryTransparent ==
    /\ Responded /\ gotoCalls >= 1 /\ ~ TimerFired
       /\ (navPlan[1] = "ok" \/ (navPlan[1] = "fail" /\ navPlan[2] = "ok"))
        => \/ resp = OkResp(ExtractResult(site, debug))
           \/ err.src \in {"content", "evaluate"}
    /\ navPlan[1] = "fail" /\ navPlan[2] = "ok" /\ ~ TimerFired => err.src # "goto"

\* C9 witness: the first goto failed, the second succeeded, and the 200 was
\* sent.
C9_Witness ==
    /\ navPlan[1] = "fail"
    /\ navPlan[2] = "ok"
    /\ gotoCalls = 2
    /\ Responded
    /\ resp = OkResp(ExtractResult(site, debug))

\* C10: when the handler catches the failure of the second navigation
\* attempt (here with a message the catch block reads as no other class),
\* the response is the generic 500, it carries the error's message when
\* details are asked for, and browser.close has been called exactly once.
C10_NavigationFailedClosesOnce ==
    Responded /\ err.src = "goto" /\ err.msg \in {MsgOther, MsgNavTime}
        => /\ resp.status = 500
           /\ resp.error = "Failed to scrape page"
           /\ debug => resp.details = err.msg
           /\ closeCalls = 1


\* C11: a response carries a details string only when debug is set and the
\* response is the generic 500, and the string is then the caught error's
\* message; the 400s, the 504 and the not-installed 500 never carry one.
C11_DetailsOnlyInDebugGeneric ==
    /\ resp.details # << >>
        => /\ debug
           /\ resp.status = 500
           /\ resp.error = "Failed to scrape page"
           /\ resp.details = err.msg
    /\ resp.status \in {400, 405, 504} \/ resp = NotInstalledResp \/ ~ debug
        => resp.details = << >>

\* C11 witness: a generic 500 with details, sent in debug mode.
C11_Witness ==
    /\ debug
    /\ resp.status = 500
    /\ resp.details = MsgOther

\* C14: when the operation settles while the timer is still armed, the
\* timer is cancelled, the handler gets the operation's own value or error,
\* and a cancelled timer never fires.
C14_OperationFirst ==
    /\ [](opc \in {"resolved", "rejected"} => tpc # "armed")
    /\ [](tpc = "cancelled"
            => /\ opc \in {"resolved", "rejected"}
               /\ opc = "resolved" => Responded /\ resp = OkResp(opValue)
               /\ opc = "rejected" => err = opErr)
    /\ [][tpc = "cancelled" => tpc' = "cancelled"]_vars

\* C14 witness: the operation returned first, the timer was cancelled and
\* the 200 carries the operation's value.
C14_Witness ==
    /\ tpc = "cancelled"
    /\ opc = "resolved"
    /\ resp = OkResp(opValue)

\* the handler caught the failure of an acquisition step
AcquisitionFailed ==
    Responded /\ err.src \in {"launch", "newContext", "newPage"}

\* C15 (as claimed): whatever made an acquisition step fail, the response
\* is the not-installed 500 and no engine is left open.
C15_AcquisitionFailureUnavailable ==
    AcquisitionFailed => resp = NotInstalledResp /\ bstate # "open"

\* C15 (amended): after a failed acquisition step the response is the
\* not-installed 500 exactly when the error's message holds "Executable
\* doesn't exist" or "download new browsers"; in every case no engine is
\* left open when the response is sent.
C15_UnavailableByMessage ==
    AcquisitionFailed
        => /\ resp = NotInstalledResp
                <=> \/ includes(err.msg, "Executable doesn't exist")
                    \/ includes(err.msg, "download new browsers")
           /\ bstate # "open"

\* C15 witness: newContext failed with the missing-binary message, the
\* launched engine was closed and the not-installed 500 was sent.
C15_Witness ==
    /\ Responded
    /\ err.src = "newContext"
    /\ resp = NotInstalledResp
    /\ bstate = "closed"

\* C16: every address in ::1, fc00::/7, fe80::/10, 10/8, 127/8, 169.254/16,
\* 192.168/16, 172.16/12 or 0/8 is classified private by isPrivateIp, and a
\* lookup result holding it is rejected.
C16_PrivateRangesClassified ==
    \A ip \in Addresses :
        InPrivateRange(ip) => isPrivateIp(ip) /\ ~ AddrsAllowed(<< ip >>)

\* C17: for a URL whose hostname is "localhost" no lookup is ever made, and
\* once the handler has run the response is the 400 of a disallowed host.
C17_LocalhostWithoutLookup ==
    method = "GET" /\ ParseURL(url).hostname = "localhost"
        => /\ dnsLookups = 0
           /\ dnsState = "none"
           /\ launches = 0
           /\ hpc # "start" => hostChecked /\ ~ hostAllowed /\ resp = DisallowedHostResp

\* C17 witness: the localhost URL answered with the 400.
C17_Witness ==
    /\ url = "http://localhost/"
    /\ dnsLookups = 0
    /\ resp = DisallowedHostResp

\* C18: a cleanup that starts after an earlier cleanup has completed calls
\* browser.close no more and leaves the flag set: once pageClosed is set no
\* close call is added, and the catch block's cleanup that follows the
\* completed timeout cleanup makes no call and lets the 504 go out.
C18_SecondCleanupNoOp ==
    [][ /\ pageClosed => pageClosed' /\ closeCalls' = closeCalls
        /\ tpc = "closing" /\ hpc = "guard" /\ tpc' = "rejected"
            => /\ closeCalls' = closeCalls
               /\ pageClosed'
               /\ resp' = ErrorResp(504, "Timeout") ]_vars

\* C18 witness: the timeout cleanup closed the engine, the catch block's
\* cleanup ran after it, and one close call was made in all.
C18_Witness ==
    /\ resp = ErrorResp(504, "Timeout")
    /\ pageClosed
    /\ closeCalls = 1

\* C20: a 504 is sent only in a call whose timer fired, and the error
\* behind it is withTimeout's own rejection.
C20_TimeoutOnlyFromTimer ==
    resp.status = 504 => TimerFired /\ err = TimeoutErr


IsPrefix(s, t) ==
    /\ Len(s) <= Len(t)
    /\ SubSeq(t, 1, Len(s)) = s

\* the courses the retry loop may take
NavCourses ==
    { << "goto", "ok" >>,
      << "goto", "fail", "delay", "goto", "ok" >>,
      << "goto", "fail", "delay", "goto", "fail" >> }

\* C13: page.goto is called at most twice in a call; a second call comes
\* only after the first failed and the delay elapsed; after a failed second
\* attempt there is no further call: the operation has thrown that
\* attempt's error, and the handler, if it was still waiting, caught it.
\* The operation is followed after the response as well.
C13_AtMostTwoAttempts ==
    /\ gotoCalls <= 2
    /\ \E c \in NavCourses : IsPrefix(navLog, c)
    /\ navLog = << "goto", "fail", "delay", "goto", "fail" >>
        => /\ opc = "rejected"
           /\ opErr.src = "goto"
           /\ opErr.attempt = 2
           /\ ~ TimerFired => err = opErr

\* C13 witness: the handler has answered the timeout, and the detached
\* operation went through both attempts and threw the second failure.
C13_Witness ==
    /\ Responded
    /\ err = TimeoutErr
    /\ navLog = << "goto", "fail", "delay", "goto", "fail" >>
    /\ opc = "rejected"


AnsweredOnceGuarded ==
    /\ (hpc \in {"guard", "closing"}) ~> Responded
    /\ [][Responded => Responded' /\ resp' = resp]_vars


\* withTimeout's timer fires in this step
TimerFiresNow ==
    /\ tpc = "armed"
    /\ tpc' \in {"closing", "rejected"}

\* C12: with the navigation timeout at the budget less the margin, the
\* timer of withTimeout never fires on a pending page.goto, whichever the
\* attempt and however long launch and session creation took.
C12_NavTimesOutFirst ==
    [][TimerFiresNow => opc # "goto"]_vars

\* The part of C12 that the code does keep: the timer never fires on a
\* page.goto that was called less than the margin after the timer was armed.
NavTimesOutFirstIfEarly ==
    [][TimerFiresNow /\ opc = "goto" => navStart >= NavMargin]_vars

====
